---- MODULE Spec2Model ----
(***************************************************************************)
(* Model of src/src/process.rs: the `process` worker thread started by     *)
(* Process::run_thread, the Message queue it drains, the per-message reply *)
(* channels (callback), and the supervised pipeline `cargo run | tee`.     *)
(*                                                                         *)
(* Strings the code parses (the env and args specs) are sequences of       *)
(* one-character strings, so that split_whitespace and split("=") are      *)
(* computed the way the code computes them.                                *)
(***************************************************************************)
EXTENDS Naturals, Sequences, FiniteSets

VARIABLES
    queue,      \* the mpsc channel (tx, rx): messages sent and not yet received
    callback,   \* per message id: the caller's end of its reply channel
    handled,    \* ids of the messages the worker has received, in order
    pc,         \* where the worker thread is
    message,    \* the message the worker is handling
    result,     \* the handler's return value, about to be sent
    trace,      \* what the handler in hand has met: the calls stop() made on
                \* the child and how each ended, the endpoint call_rpc found
    child,      \* Process.child : Option<Vec<Popen>>
    os,         \* the operating system's processes, by pid
    logfile     \* the file at option.log_file_path

vars == <<queue, callback, handled, pc, message, result, trace, child, os, logfile>>

(***************************************************************************)
(* Bounds of the model.                                                    *)
(***************************************************************************)
MaxMessages == 3    \* messages sent to the worker over one run
MaxEnvLen == 4      \* longest env spec of the exhaustive parse_env check

(***************************************************************************)
(* Strings.                                                                *)
(***************************************************************************)
Space == " "
Equals == "="
EnvAlphabet == {"k", Equals, Space}

\* The env specs callers send: empty, two valid pairs, a valid pair followed
\* by a bare key, two separators in one token.
EnvSpecs ==
    { <<>>,
      <<"k", "=", "v", " ", "j", "=", "w">>,
      <<"k", "=", "v", " ", "k">>,
      <<"k", "=", "v", "=", "v">> }

ArgSpecs == { <<"-", "p", " ", "1">> }

Methods == { "ping" }

\* str::split_whitespace: the maximal runs of non-whitespace characters.
RECURSIVE split_whitespace_from(_, _, _)
split_whitespace_from(s, i, cur) ==
    IF i > Len(s)
    THEN IF cur = <<>> THEN <<>> ELSE <<cur>>
    ELSE IF s[i] = Space
         THEN IF cur = <<>>
              THEN split_whitespace_from(s, i + 1, <<>>)
              ELSE <<cur>> \o split_whitespace_from(s, i + 1, <<>>)
         ELSE split_whitespace_from(s, i + 1, Append(cur, s[i]))

split_whitespace(s) == split_whitespace_from(s, 1, <<>>)

\* str::split(pat) for a one-character pattern: the pieces between the
\* occurrences of pat, empty pieces included.
RECURSIVE split(_, _)
split(s, pat) ==
    IF \A i \in 1..Len(s) : s[i] # pat
    THEN <<s>>
    ELSE LET i == CHOOSE j \in 1..Len(s) :
                      s[j] = pat /\ \A k \in 1..(j - 1) : s[k] # pat
         IN  <<SubSeq(s, 1, i - 1)>> \o split(SubSeq(s, i + 1, Len(s)), pat)

(***************************************************************************)
(* Results: Result<T, Error>.  kind is the Error variant, msg the String   *)
(* CodeChainRPC carries, val the Ok payload.                               *)
(***************************************************************************)
Ok(v) == [tag |-> "Ok", kind |-> "", msg |-> "", val |-> v]
Err(k, m) == [tag |-> "Err", kind |-> k, msg |-> m, val |-> <<>>]
NoResult == [tag |-> "None", kind |-> "", msg |-> "", val |-> <<>>]

Unit == <<>>

\* A parse_env that asks for at least one separator.
RECURSIVE parse_env_loop_atleast(_, _)
parse_env_loop_atleast(env_kvs, ret) ==
    IF env_kvs = <<>>
    THEN Ok(ret)
    ELSE LET kv_array == split(Head(env_kvs), Equals)
         IN  IF Len(kv_array) < 2
             THEN Err("EnvParseError", "")
             ELSE parse_env_loop_atleast(Tail(env_kvs),
                                         Append(ret, <<kv_array[1], kv_array[2]>>))

\* Process::parse_env
RECURSIVE parse_env_loop(_, _)
parse_env_loop(env_kvs, ret) ==
    IF env_kvs = <<>>
    THEN Ok(ret)
    ELSE LET kv_array == split(Head(env_kvs), Equals)
         IN  IF Len(kv_array) # 2
             THEN Err("EnvParseError", "")
             ELSE parse_env_loop(Tail(env_kvs),
                                 Append(ret, <<kv_array[1], kv_array[2]>>))

parse_env(env) == parse_env_loop(split_whitespace(env), <<>>)

(***************************************************************************)
(* Messages.                                                               *)
(***************************************************************************)
Msg(id, type, env, args, method) ==
    [id |-> id, type |-> type, env |-> env, args |-> args, method |-> method]

NoMessage == Msg(0, "None", <<>>, <<>>, "")

Messages(id) ==
    { Msg(id, "Run", e, a, "") : e \in EnvSpecs, a \in ArgSpecs }
    \cup { Msg(id, t, <<>>, <<>>, "") : t \in {"Stop", "Quit", "GetStatus", "GetLog"} }
    \cup { Msg(id, "CallRPC", <<>>, <<>>, m) : m \in Methods }

(***************************************************************************)
(* The supervised pipeline.                                                *)
(***************************************************************************)
\* Option<Vec<Popen>>: None, or Some(vec) with vec[1] CodeChain, vec[2] tee.
\* A Popen holds the pid and, once it has seen it, the exit status.
None == [some |-> FALSE, vec |-> <<>>]
Some(vec) == [some |-> TRUE, vec |-> vec]
Popen(pid) == [pid |-> pid, finished |-> FALSE]

\* A poll that returns what the Popen has recorded and asks nothing.
poll_cached(p) == p

\* Popen::poll: the cached exit status, or a non-blocking waitpid.
poll(p) ==
    IF p.finished THEN p
    ELSE IF os[p.pid].state = "exited" THEN [p EXCEPT !.finished = TRUE]
    ELSE p

\* An is_running that looks at the Option alone.
is_running_unpolled == child.some

\* Process::is_running: its return value, and self.child after the poll.
is_running ==
    IF ~child.some THEN FALSE ELSE ~poll(child.vec[1]).finished

child_after_poll ==
    IF ~child.some THEN child ELSE [child EXCEPT !.vec[1] = poll(@)]

\* The primary is running: handles are held and the process has not exited.
PrimaryRunning == child.some /\ os[child.vec[1].pid].state = "running"

\* The pids of the stored handle pair.
Handles(c) == [i \in 1..Len(c.vec) |-> c.vec[i].pid]

Init ==
    /\ queue = <<>>
    /\ callback = <<>>
    /\ handled = <<>>
    /\ pc = "recv"
    /\ message = NoMessage
    /\ result = NoResult
    /\ trace = <<>>
    /\ child = None
    /\ os = <<>>
    /\ logfile = [exists |-> FALSE]

(***************************************************************************)
(* Callers.                                                                *)
(***************************************************************************)
\* The worker thread has ended: rx is dropped and tx.send fails.
Ended == pc \in {"halted", "panicked"}

\* A caller builds a message with a fresh reply channel and sends it.
Enqueue ==
    /\ Len(callback) < MaxMessages
    /\ ~Ended
    /\ \E m \in Messages(Len(callback) + 1) :
          /\ queue' = Append(queue, m)
          /\ callback' = Append(callback,
                 [type |-> m.type, dropped |-> FALSE, value |-> NoResult])
    /\ UNCHANGED <<handled, pc, message, result, trace, child, os, logfile>>

\* A caller gives up on a reply it has not received and drops its Receiver.
Abandon ==
    /\ \E id \in 1..Len(callback) :
          /\ ~callback[id].dropped
          /\ callback[id].value = NoResult
          /\ callback' = [callback EXCEPT ![id].dropped = TRUE]
    /\ UNCHANGED <<queue, handled, pc, message, result, trace, child, os, logfile>>

(***************************************************************************)
(* The worker: for message in rx { match message { ... } }                 *)
(***************************************************************************)
FirstStep(type) ==
    CASE type = "Run" -> "run"
      [] type = "Stop" -> "stop"
      [] type = "Quit" -> "quit"
      [] type = "GetStatus" -> "get_status"
      [] type = "GetLog" -> "get_log"
      [] type = "CallRPC" -> "call_rpc"

\* A receiver that yields the newest message first.
recv_newest(q) == [message |-> q[Len(q)], rest |-> SubSeq(q, 1, Len(q) - 1)]

\* rx yields the oldest message of the channel.
recv(q) == [message |-> Head(q), rest |-> Tail(q)]

\* The loop head and the match: block until a message arrives, take it.
Receive ==
    /\ pc = "recv"
    /\ queue # <<>>
    /\ message' = recv(queue).message
    /\ queue' = recv(queue).rest
    /\ handled' = Append(handled, recv(queue).message.id)
    /\ pc' = FirstStep(recv(queue).message.type)
    /\ trace' = <<>>
    /\ UNCHANGED <<callback, result, child, os, logfile>>

\* A process the operating system runs: the program, whether it has exited,
\* the signals delivered to it, and what it was started with.
Proc(prog, env, args) ==
    [prog |-> prog, state |-> "running", sigterm |-> 0, sigkill |-> 0,
     env |-> env, args |-> args]

\* Process::run without its liveness check.
RunCheck_unchecked ==
    /\ pc = "run"
    /\ child' = child
    /\ IF parse_env(message.env).tag = "Err"
       THEN /\ result' = parse_env(message.env)
            /\ pc' = "send"
       ELSE /\ result' = result
            /\ pc' = "run_popen"
    /\ UNCHANGED <<queue, callback, handled, message, trace, os, logfile>>

\* A run that parses its input before it checks liveness.
RunCheck_parse_first ==
    /\ pc = "run"
    /\ child' = child_after_poll
    /\ IF parse_env(message.env).tag = "Err"
       THEN /\ result' = parse_env(message.env)
            /\ pc' = "send"
       ELSE IF is_running
            THEN /\ result' = Err("AlreadyRunning", "")
                 /\ pc' = "send"
            ELSE /\ result' = result
                 /\ pc' = "run_popen"
    /\ UNCHANGED <<queue, callback, handled, message, trace, os, logfile>>

\* A stop that asks only whether a child is stored.
StopCheck_unpolled ==
    /\ pc = "stop"
    /\ child' = child
    /\ IF child.some
       THEN /\ result' = result
            /\ pc' = "stop_terminate"
       ELSE /\ result' = Err("NotRunning", "")
            /\ pc' = "send"
    /\ UNCHANGED <<queue, callback, handled, message, trace, os, logfile>>

\* Process::run up to the parse of its input: the liveness check, the split
\* of args, parse_env.
RunCheck ==
    /\ pc = "run"
    /\ child' = child_after_poll
    /\ IF is_running
       THEN /\ result' = Err("AlreadyRunning", "")
            /\ pc' = "send"
       ELSE IF parse_env(message.env).tag = "Err"
            THEN /\ result' = parse_env(message.env)
                 /\ pc' = "send"
            ELSE /\ result' = result
                 /\ pc' = "run_popen"
    /\ UNCHANGED <<queue, callback, handled, message, trace, os, logfile>>

\* A run that launches the pipeline and does not store its handles.
RunPopen_unstored ==
    /\ pc = "run_popen"
    /\ \E launched \in BOOLEAN :
          IF launched
          THEN /\ os' = os \o
                     << Proc("codechain", parse_env(message.env).val,
                             split_whitespace(message.args)),
                        Proc("tee", <<>>, <<>>) >>
               /\ child' = child
               /\ logfile' = [exists |-> TRUE]
               /\ result' = Ok(Unit)
          ELSE /\ result' = Err("SubprocessError", "")
               /\ UNCHANGED <<child, os, logfile>>
    /\ pc' = "send"
    /\ UNCHANGED <<queue, callback, handled, message, trace>>

\* A run that keeps the handle of the primary alone.
RunPopen_primary_only ==
    /\ pc = "run_popen"
    /\ \E launched \in BOOLEAN :
          IF launched
          THEN /\ os' = os \o
                     << Proc("codechain", parse_env(message.env).val,
                             split_whitespace(message.args)),
                        Proc("tee", <<>>, <<>>) >>
               /\ child' = Some(<<Popen(Len(os) + 1)>>)
               /\ logfile' = [exists |-> TRUE]
               /\ result' = Ok(Unit)
          ELSE /\ result' = Err("SubprocessError", "")
               /\ UNCHANGED <<child, os, logfile>>
    /\ pc' = "send"
    /\ UNCHANGED <<queue, callback, handled, message, trace>>

\* A run that keeps the handle of a pipeline whose launch failed half way.
RunPopen_partial ==
    /\ pc = "run_popen"
    /\ \E launched \in BOOLEAN :
          IF launched
          THEN /\ os' = os \o
                     << Proc("codechain", parse_env(message.env).val,
                             split_whitespace(message.args)),
                        Proc("tee", <<>>, <<>>) >>
               /\ child' = Some(<<Popen(Len(os) + 1), Popen(Len(os) + 2)>>)
               /\ logfile' = [exists |-> TRUE]
               /\ result' = Ok(Unit)
          ELSE /\ os' = os \o
                     << Proc("codechain", parse_env(message.env).val,
                             split_whitespace(message.args)) >>
               /\ child' = Some(<<Popen(Len(os) + 1)>>)
               /\ logfile' = logfile
               /\ result' = Err("SubprocessError", "")
    /\ pc' = "send"
    /\ UNCHANGED <<queue, callback, handled, message, trace>>

\* Process::run from the Exec to the end: (exec | tee).popen()? and the
\* store of the new handle pair.  The launch fails or starts both processes.
RunPopen ==
    /\ pc = "run_popen"
    /\ \E launched \in BOOLEAN :
          IF launched
          THEN /\ os' = os \o
                     << Proc("codechain", parse_env(message.env).val,
                             split_whitespace(message.args)),
                        Proc("tee", <<>>, <<>>) >>
               /\ child' = Some(<<Popen(Len(os) + 1), Popen(Len(os) + 2)>>)
               /\ logfile' = [exists |-> TRUE]
               /\ result' = Ok(Unit)
          ELSE /\ result' = Err("SubprocessError", "")
               /\ UNCHANGED <<child, os, logfile>>
    /\ pc' = "send"
    /\ UNCHANGED <<queue, callback, handled, message, trace>>

\* Process::stop: the liveness check.
StopCheck ==
    /\ pc = "stop"
    /\ child' = child_after_poll
    /\ IF is_running
       THEN /\ result' = result
            /\ pc' = "stop_terminate"
       ELSE /\ result' = Err("NotRunning", "")
            /\ pc' = "send"
    /\ UNCHANGED <<queue, callback, handled, message, trace, os, logfile>>

\* Popen::terminate and Popen::kill: the signal is delivered to the pid.
Signal(pid, sig) ==
    IF sig = "SIGTERM"
    THEN [os EXCEPT ![pid].sigterm = @ + 1]
    ELSE [os EXCEPT ![pid].sigkill = @ + 1]

\* Process::stop: codechain.terminate()?
StopTerminate ==
    /\ pc = "stop_terminate"
    /\ \E sent \in BOOLEAN :
          IF sent
          THEN /\ os' = Signal(child.vec[1].pid, "SIGTERM")
               /\ trace' = Append(trace, "terminate")
               /\ result' = result
               /\ pc' = "stop_wait"
          ELSE /\ os' = os
               /\ trace' = Append(trace, "terminate failed")
               /\ result' = Err("IO", "")
               /\ pc' = "send"
    /\ UNCHANGED <<queue, callback, handled, message, child, logfile>>

\* A stop that does not look at what the wait returned.
StopWait_unread ==
    /\ pc = "stop_wait"
    /\ \/ /\ os[child.vec[1].pid].state = "exited"
          /\ child' = [child EXCEPT !.vec[1].finished = TRUE]
          /\ trace' = Append(trace, "wait exited")
       \/ /\ os[child.vec[1].pid].state = "running"
          /\ child' = child
          /\ trace' = Append(trace, "wait timeout")
    /\ result' = result
    /\ pc' = "stop_kill"
    /\ UNCHANGED <<queue, callback, handled, message, os, logfile>>

\* Process::stop: codechain.wait_timeout(10 s)? and the return when the
\* primary exited in time.  The wait ends when the primary has exited, or
\* after the timeout with the primary still running, or with an error.
StopWait ==
    /\ pc = "stop_wait"
    /\ \/ /\ os[child.vec[1].pid].state = "exited"
          /\ child' = [child EXCEPT !.vec[1].finished = TRUE]
          /\ trace' = Append(trace, "wait exited")
          /\ result' = Ok(Unit)
          /\ pc' = "send"
       \/ /\ os[child.vec[1].pid].state = "running"
          /\ child' = child
          /\ trace' = Append(trace, "wait timeout")
          /\ result' = result
          /\ pc' = "stop_kill"
       \/ /\ child' = child
          /\ trace' = Append(trace, "wait failed")
          /\ result' = Err("SubprocessError", "")
          /\ pc' = "send"
    /\ UNCHANGED <<queue, callback, handled, message, os, logfile>>

\* A stop that drops the result of kill.
StopKill_unchecked ==
    /\ pc = "stop_kill"
    /\ \E sent \in BOOLEAN :
          IF sent
          THEN /\ os' = Signal(child.vec[1].pid, "SIGKILL")
               /\ trace' = Append(trace, "kill")
          ELSE /\ os' = os
               /\ trace' = Append(trace, "kill failed")
    /\ result' = Ok(Unit)
    /\ pc' = "send"
    /\ UNCHANGED <<queue, callback, handled, message, child, logfile>>

\* Process::stop: codechain.kill()? and Ok(()).
StopKill ==
    /\ pc = "stop_kill"
    /\ \E sent \in BOOLEAN :
          IF sent
          THEN /\ os' = Signal(child.vec[1].pid, "SIGKILL")
               /\ trace' = Append(trace, "kill")
               /\ result' = Ok(Unit)
          ELSE /\ os' = os
               /\ trace' = Append(trace, "kill failed")
               /\ result' = Err("IO", "")
    /\ pc' = "send"
    /\ UNCHANGED <<queue, callback, handled, message, child, logfile>>

\* A GetStatus that forgets the child whose primary it finds exited.
GetStatus_reaping ==
    /\ pc = "get_status"
    /\ child' = IF is_running THEN child_after_poll ELSE None
    /\ result' = Ok(<<IF is_running THEN "Run" ELSE "Stop">>)
    /\ pc' = "send"
    /\ UNCHANGED <<queue, callback, handled, message, trace, os, logfile>>

\* The Message::GetStatus arm up to its send.
GetStatus ==
    /\ pc = "get_status"
    /\ child' = child_after_poll
    /\ result' = Ok(<<IF is_running THEN "Run" ELSE "Stop">>)
    /\ pc' = "send"
    /\ UNCHANGED <<queue, callback, handled, message, trace, os, logfile>>

\* Process::get_log: open the file and read all of it.
GetLog ==
    /\ pc = "get_log"
    /\ IF ~logfile.exists
       THEN result' = Err("IO", "")
       ELSE \E read \in BOOLEAN :
               result' = IF read
                         THEN Ok(<<"log">>)
                         ELSE Err("IO", "")
    /\ pc' = "send"
    /\ UNCHANGED <<queue, callback, handled, message, trace, child, os, logfile>>

\* What the endpoint at 127.0.0.1:8080 does with the request: nothing
\* listens, it answers with a body that is no JSON-RPC response, or it
\* answers with one.
Endpoint == {"refused", "garbage", "response"}

\* Process::call_rpc
call_rpc(method, endpoint) ==
    IF endpoint = "refused"
    THEN Err("CodeChainRPC", "connection refused")
    ELSE IF endpoint = "garbage"
         THEN Err("CodeChainRPC", "JSON parse failed")
         ELSE Ok(<<method>>)

CallRPC ==
    /\ pc = "call_rpc"
    /\ \E endpoint \in Endpoint :
          /\ result' = call_rpc(message.method, endpoint)
          /\ trace' = <<endpoint>>
    /\ pc' = "send"
    /\ UNCHANGED <<queue, callback, handled, message, child, os, logfile>>

\* callback.send(..).expect("Callback should be success"): the send fails,
\* and the thread panics, when the caller has dropped its Receiver.
Send(value, then) ==
    IF callback[message.id].dropped
    THEN /\ pc' = "panicked"
         /\ callback' = callback
    ELSE /\ pc' = then
         /\ callback' = [callback EXCEPT ![message.id].value = value]

\* The send that ends the Run, Stop, GetStatus, GetLog and CallRPC arms.
Reply ==
    /\ pc = "send"
    /\ Send(result, "recv")
    /\ message' = NoMessage
    /\ result' = NoResult
    /\ trace' = <<>>
    /\ UNCHANGED <<queue, handled, child, os, logfile>>

\* A Quit arm without its break.
Quit_unbroken ==
    /\ pc = "quit"
    /\ Send(Ok(Unit), "recv")
    /\ message' = NoMessage
    /\ UNCHANGED <<queue, handled, result, trace, child, os, logfile>>

\* The Message::Quit arm: send Ok(()) and break.
Quit ==
    /\ pc = "quit"
    /\ Send(Ok(Unit), "halted")
    /\ message' = NoMessage
    /\ UNCHANGED <<queue, handled, result, trace, child, os, logfile>>

(***************************************************************************)
(* The environment: the supervised processes run on their own.             *)
(***************************************************************************)
\* The primary exits: on its own, on SIGTERM, or on SIGKILL.  Its output
\* stream closes, and the tee that reads it exits with it.
PrimaryExit ==
    /\ \E pid \in 1..Len(os) :
          /\ os[pid].prog = "codechain"
          /\ os[pid].state = "running"
          /\ os' = [os EXCEPT ![pid].state = "exited", ![pid + 1].state = "exited"]
    /\ UNCHANGED <<queue, callback, handled, pc, message, result, trace, child, logfile>>

Next ==
    \/ Enqueue
    \/ Abandon
    \/ Receive
    \/ RunCheck
    \/ RunPopen
    \/ StopCheck
    \/ StopTerminate
    \/ StopWait
    \/ StopKill
    \/ GetStatus
    \/ GetLog
    \/ CallRPC
    \/ Reply
    \/ Quit
    \/ PrimaryExit

Spec == Init /\ [][Next]_vars

\* The steps of the worker thread.
Worker ==
    \/ Receive
    \/ RunCheck
    \/ RunPopen
    \/ StopCheck
    \/ StopTerminate
    \/ StopWait
    \/ StopKill
    \/ GetStatus
    \/ GetLog
    \/ CallRPC
    \/ Reply
    \/ Quit

\* The worker thread keeps being scheduled: it takes the step it can take,
\* every wait_timeout ends and every HTTP request returns.  Nothing is
\* assumed of the callers or of the supervised processes.
FairSpec == Spec /\ WF_vars(Worker)

(***************************************************************************)
(* Properties.                                                             *)
(***************************************************************************)
\* The worker is inside a handler.
Handling == pc \notin {"recv", "halted", "panicked"}

Replied(id) == callback[id].value # NoResult

\* The signals delivered so far, by pid.
Signals(o) == [p \in 1..Len(o) |-> <<o[p].sigterm, o[p].sigkill>>]

\* C1: messages are handled one at a time in the order they were sent
\* (ids count the sends): the worker has received exactly the first
\* Len(handled) messages, in that order; each of them but the one in hand
\* has had its reply sent before the next was received; only a received
\* message has a reply; and the handler that runs, whatever it waits for,
\* is the one of the message received last.
C1_FifoOneAtATime ==
    /\ \A i \in 1..Len(handled) : handled[i] = i
    /\ \A i \in 1..(Len(handled) - 1) : Replied(handled[i])
    /\ \A id \in 1..Len(callback) : Replied(id) => id <= Len(handled)
    /\ \A i \in 1..Len(queue) : queue[i].id = Len(handled) + i
    /\ Handling => message.id = Len(handled) /\ ~Replied(message.id)
    /\ pc = "recv" => \A i \in 1..Len(handled) : Replied(handled[i])

\* C1 witness: a second message's Stop is waiting for the primary, the first
\* message has its reply, and a third message waits in the channel.
C1_Witness ==
    /\ pc = "stop_wait"
    /\ Len(handled) = 2
    /\ Replied(1)
    /\ Len(queue) = 1

\* C2: a Run that finds the primary running (handles held, process not
\* exited) returns AlreadyRunning with the child and the operating system's
\* processes as they were, and they stay so until the reply is sent.
C2_RunWhileRunning ==
    [][ /\ (pc = "run" /\ PrimaryRunning /\ pc' # "run")
           => /\ pc' = "send"
              /\ result' = Err("AlreadyRunning", "")
              /\ child' = child
              /\ os' = os
        /\ (pc = "send" /\ message.type = "Run" /\ result.kind = "AlreadyRunning")
           => /\ child' = child
              /\ Len(os') = Len(os) ]_vars

\* C2 witness: Run has returned AlreadyRunning.
C2_Witness ==
    /\ pc = "send"
    /\ message.type = "Run"
    /\ result = Err("AlreadyRunning", "")
    /\ PrimaryRunning

\* C3: a Stop that finds no child, or a child whose primary has exited,
\* returns NotRunning; the stored handle pair is the same pair, and no
\* signal is delivered to any process, up to the reply.
C3_StopWhileNotRunning ==
    [][ /\ (pc = "stop" /\ ~PrimaryRunning /\ pc' # "stop")
           => /\ pc' = "send"
              /\ result' = Err("NotRunning", "")
              /\ child'.some = child.some
              /\ Handles(child') = Handles(child)
              /\ os' = os
        /\ (pc = "send" /\ message.type = "Stop" /\ result.kind = "NotRunning")
           => /\ child' = child
              /\ Signals(os') = Signals(os) ]_vars

\* C3 witness: Stop has returned NotRunning on the handles of a primary that
\* exited on its own.
C3_Witness ==
    /\ pc = "send"
    /\ message.type = "Stop"
    /\ result = Err("NotRunning", "")
    /\ child.some
    /\ os[child.vec[1].pid].sigterm = 0

\* The message received last, and whether it is a Quit.
LastHandled == handled[Len(handled)]
QuitReceived == handled # <<>> /\ callback[LastHandled].type = "Quit"

\* C4 (as claimed): once Stop has replied success, and before the next
\* message is taken, the worker holds no handle.
C4_StopSuccessClearsChild ==
    (/\ pc = "recv"
     /\ handled # <<>>
     /\ callback[LastHandled].type = "Stop"
     /\ callback[LastHandled].value.tag = "Ok")
    => child = None

\* C5 (as claimed): the only error a Stop is ever answered with is
\* NotRunning.
C5_StopOnlyFailsNotRunning ==
    \A id \in 1..Len(callback) :
        (callback[id].type = "Stop" /\ callback[id].value.tag = "Err")
        => callback[id].value.kind = "NotRunning"

\* C5 (amended): a Stop that finds the primary running goes on to signal it;
\* stop() returns NotRunning exactly when it made no call on the child; when
\* the call it made last failed it returns that failure, an IO error for
\* terminate and kill and a SubprocessError for wait_timeout, and success
\* otherwise; a Stop is never answered with any other kind of error.
C5_StopErrors ==
    /\ [](/\ (pc = "send" /\ message.type = "Stop")
             => /\ (trace = <<>>) <=> (result = Err("NotRunning", ""))
                /\ trace # <<>> =>
                     LET last == trace[Len(trace)]
                     IN  /\ last \in {"terminate failed", "kill failed"}
                            => result = Err("IO", "")
                         /\ last = "wait failed"
                            => result = Err("SubprocessError", "")
                         /\ last \notin {"terminate failed", "wait failed", "kill failed"}
                            => result = Ok(Unit)
          /\ \A id \in 1..Len(callback) :
                callback[id].type = "Stop"
                => callback[id].value.kind \in {"", "NotRunning", "IO", "SubprocessError"})
    /\ [][ (pc = "stop" /\ PrimaryRunning /\ pc' # "stop")
           => pc' = "stop_terminate" ]_vars

\* C5 witness: the primary ignored SIGTERM for the whole wait, the kill
\* failed, and Stop returns the IO error.
C5_Witness ==
    /\ pc = "send"
    /\ message.type = "Stop"
    /\ trace = <<"terminate", "wait timeout", "kill failed">>
    /\ result = Err("IO", "")

\* C6 (as claimed): a Stop on a running primary always makes the calls
\* terminate, wait_timeout and, after a timeout, kill, and returns success.
C6_StopSequence ==
    (pc = "send" /\ message.type = "Stop" /\ trace # <<>>)
    => /\ \/ trace = <<"terminate", "wait exited">>
          \/ trace = <<"terminate", "wait timeout", "kill">>
       /\ result = Ok(Unit)

\* The calls a stop() on a running primary can have made when it returns,
\* with what it returns.
StopOutcomes ==
    { <<<<"terminate failed">>, Err("IO", "")>>,
      <<<<"terminate", "wait failed">>, Err("SubprocessError", "")>>,
      <<<<"terminate", "wait exited">>, Ok(Unit)>>,
      <<<<"terminate", "wait timeout", "kill">>, Ok(Unit)>>,
      <<<<"terminate", "wait timeout", "kill failed">>, Err("IO", "")>> }

\* C6 (amended): a Stop on a running primary sends it one SIGTERM and, if
\* that call succeeded, waits once; the wait ends as exited only if the
\* primary has exited, and then Stop returns success with no kill; it ends
\* as a timeout only with the primary still running, and then Stop sends one
\* SIGKILL and, if that call succeeded, returns success.  A call that fails
\* ends the Stop with its error and no further call.  Each signal goes to
\* the primary, once per Stop, and tee is never signalled.
C6_StopSequenceAmended ==
    /\ [](/\ (pc = "send" /\ message.type = "Stop" /\ trace # <<>>)
             => <<trace, result>> \in StopOutcomes
          /\ \A p \in 1..Len(os) :
                os[p].prog = "tee" => os[p].sigterm = 0 /\ os[p].sigkill = 0)
    /\ [][ /\ \A p \in 1..Len(os) :
                /\ os'[p].sigterm # os[p].sigterm
                   => /\ pc = "stop_terminate"
                      /\ trace = <<>>
                      /\ trace' = <<"terminate">>
                      /\ p = child.vec[1].pid
                      /\ os'[p].sigterm = os[p].sigterm + 1
                /\ os'[p].sigkill # os[p].sigkill
                   => /\ pc = "stop_kill"
                      /\ trace = <<"terminate", "wait timeout">>
                      /\ trace' = <<"terminate", "wait timeout", "kill">>
                      /\ p = child.vec[1].pid
                      /\ os'[p].sigkill = os[p].sigkill + 1
           /\ (pc = "stop_wait" /\ pc' # "stop_wait")
              => /\ trace' = Append(trace, "wait exited")
                    => os[child.vec[1].pid].state = "exited"
                 /\ trace' = Append(trace, "wait timeout")
                    => os[child.vec[1].pid].state = "running" ]_vars

\* C6 witness: the primary ignored SIGTERM, was killed after the timeout,
\* and Stop returns success.
C6_Witness ==
    /\ pc = "send"
    /\ message.type = "Stop"
    /\ trace = <<"terminate", "wait timeout", "kill">>
    /\ result = Ok(Unit)
    /\ os[child.vec[1].pid].sigterm = 1
    /\ os[child.vec[1].pid].sigkill = 1

\* Every env spec of at most MaxEnvLen characters.
EnvStrings == UNION { [1..n -> EnvAlphabet] : n \in 0..MaxEnvLen }

\* e[i..j] is a whitespace-separated token of e.
IsToken(e, i, j) ==
    /\ i <= j
    /\ \A k \in i..j : e[k] # Space
    /\ i = 1 \/ e[i - 1] = Space
    /\ j = Len(e) \/ e[j + 1] = Space

\* Some token of e does not contain exactly one "=".
HasBadToken(e) ==
    \E i, j \in 1..Len(e) :
        /\ IsToken(e, i, j)
        /\ Cardinality({k \in i..j : e[k] = Equals}) # 1

ParseEnvRejectsBadTokens ==
    \A e \in EnvStrings \cup EnvSpecs :
        (parse_env(e).tag = "Err") <=> HasBadToken(e)

\* C7: parse_env fails exactly on the env specs with a token that does not
\* hold exactly one "="; a Run that finds the primary not running returns
\* EnvParseError exactly for those, having started no process and with the
\* child it had, and goes on to the launch for the others; nothing changes
\* up to the reply; and a GetStatus handled right after that Run returns
\* Stop.
C7_ConfigParse ==
    /\ [](/\ ParseEnvRejectsBadTokens
          /\ (pc = "send" /\ message.type = "Run" /\ result.kind = "EnvParseError")
             => HasBadToken(message.env)
          /\ (/\ pc = "send"
              /\ message.type = "GetStatus"
              /\ message.id > 1
              /\ callback[message.id - 1].type = "Run"
              /\ callback[message.id - 1].value.kind = "EnvParseError")
             => result = Ok(<<"Stop">>))
    /\ [][ /\ (pc = "run" /\ ~PrimaryRunning /\ pc' # "run")
              => /\ IF HasBadToken(message.env)
                    THEN pc' = "send" /\ result' = Err("EnvParseError", "")
                    ELSE pc' = "run_popen"
                 /\ child'.some = child.some
                 /\ Handles(child') = Handles(child)
                 /\ os' = os
           /\ (pc = "send" /\ message.type = "Run" /\ result.kind = "EnvParseError")
              => /\ child' = child
                 /\ Len(os') = Len(os) ]_vars

\* C7 witness: a Run whose env spec has a valid pair before a bare key
\* returns EnvParseError with no process started, after an earlier such Run
\* was followed by a GetStatus answered Stop.
C7_Witness ==
    /\ pc = "send"
    /\ message.type = "Run"
    /\ message.env = <<"k", "=", "v", " ", "k">>
    /\ result = Err("EnvParseError", "")
    /\ os = <<>>
    /\ Len(handled) = 3
    /\ callback[1].value.kind = "EnvParseError"
    /\ callback[2].type = "GetStatus"
    /\ callback[2].value = Ok(<<"Stop">>)

\* C8: no message is received after a Quit; a Quit is answered with
\* Ok(()) or not at all, and the loop that has halted has answered it; once
\* the Quit is received the worker is in its arm or has ended, no message
\* sent after the Quit has a reply, the child stays as it is, and when the
\* caller holds the reply channel the arm sends Ok(()) and halts.
C8_QuitIsTerminal ==
    /\ [](/\ \A i \in 1..(Len(handled) - 1) : callback[handled[i]].type # "Quit"
          /\ \A id \in 1..Len(callback) :
                callback[id].type = "Quit"
                => callback[id].value \in {NoResult, Ok(Unit)}
          /\ pc = "halted"
             => QuitReceived /\ callback[LastHandled].value = Ok(Unit)
          /\ QuitReceived
             => /\ pc \in {"quit", "halted", "panicked"}
                /\ \A id \in (LastHandled + 1)..Len(callback) : ~Replied(id))
    /\ [][ QuitReceived
           => /\ child' = child
              /\ handled' = handled
              /\ pc = "halted" => pc' = "halted"
              /\ (pc = "quit" /\ pc' # "quit" /\ ~callback[message.id].dropped)
                 => /\ pc' = "halted"
                    /\ callback'[message.id].value = Ok(Unit) ]_vars

\* C8 witness: the loop has halted on a Quit that followed a successful
\* Run, and a message sent behind the Quit stays in the channel unanswered.
C8_Witness ==
    /\ pc = "halted"
    /\ child.some
    /\ queue # <<>>
    /\ ~Replied(queue[1].id)

\* C9 (as claimed): every message received that is not a Quit gets its
\* reply, and the worker goes on: it is never ended by anything but a Quit.
C9_AlwaysRepliesAndProceeds ==
    /\ \A i \in 1..Len(handled) :
          callback[handled[i]].type # "Quit"
          => \/ Replied(handled[i])
             \/ i = Len(handled) /\ Handling
    /\ Ended => QuitReceived

\* C10 (as claimed): the reply to a CallRPC whose response body did not
\* decode carries another kind of error than the reply the same request gets
\* when nothing listens on the endpoint.
C10_DistinctRpcErrorKinds ==
    (pc = "send" /\ message.type = "CallRPC" /\ trace = <<"garbage">>)
    => /\ result.tag = "Err"
       /\ call_rpc(message.method, "refused").tag = "Err"
       /\ result.kind # call_rpc(message.method, "refused").kind

\* The message in hand was sent right after a message of type t, and that
\* message was answered with a result of tag g.
Follows(t, g) ==
    /\ message.id > 1
    /\ callback[message.id - 1].type = t
    /\ callback[message.id - 1].value.tag = g

\* C11: a Run that succeeds stores a pair of handles, the first of the
\* codechain process and the second of the tee process it has just started,
\* both running; and a GetStatus handled right after a Run answered with
\* success returns Run when the primary has not exited at its poll.
C11_RunSuccessStoresPair ==
    [][ /\ (pc = "run_popen" /\ pc' # "run_popen" /\ result'.tag = "Ok")
           => /\ result' = Ok(Unit)
              /\ child'.some
              /\ Handles(child') = <<Len(os) + 1, Len(os) + 2>>
              /\ Len(os') = Len(os) + 2
              /\ os'[child'.vec[1].pid].prog = "codechain"
              /\ os'[child'.vec[2].pid].prog = "tee"
              /\ os'[child'.vec[1].pid].state = "running"
              /\ os'[child'.vec[2].pid].state = "running"
        /\ (pc = "get_status" /\ pc' # "get_status" /\ Follows("Run", "Ok"))
           => /\ child.some
              /\ os[child.vec[1].pid].state = "running"
                 => result' = Ok(<<"Run">>) ]_vars

\* C11 witness: the GetStatus sent right after a Run answered with success
\* returns Run, on a pair of handles stored from no child.
C11_Witness ==
    /\ pc = "send"
    /\ message.type = "GetStatus"
    /\ Follows("Run", "Ok")
    /\ result = Ok(<<"Run">>)
    /\ Handles(child) = <<1, 2>>

\* C12: GetStatus never returns an error; it returns Run exactly when a
\* child is stored and its primary has not exited at the poll, and Stop
\* otherwise; every reply to a GetStatus is Ok(Run) or Ok(Stop).
C12_GetStatus ==
    /\ [](\A id \in 1..Len(callback) :
             (callback[id].type = "GetStatus" /\ Replied(id))
             => callback[id].value \in {Ok(<<"Run">>), Ok(<<"Stop">>)})
    /\ [][ (pc = "get_status" /\ pc' # "get_status")
           => /\ pc' = "send"
              /\ result' = Ok(<<IF PrimaryRunning THEN "Run" ELSE "Stop">>) ]_vars

\* C12 witness: GetStatus returns Stop on the handles of a primary that has
\* exited.
C12_Witness ==
    /\ pc = "send"
    /\ message.type = "GetStatus"
    /\ result = Ok(<<"Stop">>)
    /\ child.some

\* C13: the child is None with no handle, or Some of exactly two handles,
\* the first of a codechain process and the second of its tee.
C13_BothOrNeither ==
    IF child.some
    THEN /\ Len(child.vec) = 2
         /\ child.vec[1].pid \in 1..Len(os)
         /\ child.vec[2].pid = child.vec[1].pid + 1
         /\ child.vec[2].pid \in 1..Len(os)
         /\ os[child.vec[1].pid].prog = "codechain"
         /\ os[child.vec[2].pid].prog = "tee"
    ELSE child.vec = <<>>

\* C13 witness: a Run on a stored pair has failed at the launch, and the
\* pair is still stored.
C13_Witness ==
    /\ pc = "send"
    /\ message.type = "Run"
    /\ result = Err("SubprocessError", "")
    /\ child.some

\* The child holds the same handle pair, or none, in both.
SamePair(c, d) == c.some = d.some /\ Handles(c) = Handles(d)

\* C14: the stored handle pair changes only while a Run or a Stop is
\* handled; GetStatus, GetLog and CallRPC leave it as it is, also when its
\* primary has exited.
C14_PollKeepsHandles ==
    [][ /\ ~SamePair(child', child) => message.type \in {"Run", "Stop"}
        /\ pc \in {"get_status", "get_log", "call_rpc"} => SamePair(child', child)
        /\ (pc = "send" /\ message.type \in {"GetStatus", "GetLog", "CallRPC"})
           => SamePair(child', child) ]_vars

\* C14 witness: the primary of the first Run exited on its own; a CallRPC
\* has been answered since, a GetStatus has returned Stop, and the pair of
\* that Run is still stored.
C14_Witness ==
    /\ pc = "send"
    /\ message.type = "GetStatus"
    /\ result = Ok(<<"Stop">>)
    /\ Follows("CallRPC", "Ok")
    /\ Handles(child) = <<1, 2>>
    /\ os[1].state = "exited"
    /\ os[1].sigterm = 0

\* C15: a Run whose launch fails returns SubprocessError, which is neither
\* EnvParseError nor AlreadyRunning; it starts no process and leaves the
\* child as it was, and up to the reply the primary is not running and the
\* child does not change.
C15_SpawnFailure ==
    /\ []((pc = "send" /\ message.type = "Run" /\ result.kind = "SubprocessError")
          => /\ result = Err("SubprocessError", "")
             /\ result.kind \notin {"EnvParseError", "AlreadyRunning"}
             /\ ~PrimaryRunning)
    /\ [][ /\ (pc = "run_popen" /\ pc' # "run_popen" /\ result'.tag = "Err")
              => /\ result' = Err("SubprocessError", "")
                 /\ child' = child
                 /\ os' = os
           /\ (pc = "send" /\ message.type = "Run" /\ result.kind = "SubprocessError")
              => child' = child ]_vars

\* C15 witness: a Run from no child has failed at the launch, and there is
\* still no child and no process.
C15_Witness ==
    /\ pc = "send"
    /\ message.type = "Run"
    /\ result = Err("SubprocessError", "")
    /\ child = None
    /\ os = <<>>

\* No Quit is among the messages received.
NoQuitReceived == \A i \in 1..Len(handled) : callback[handled[i]].type # "Quit"

\* C16 (as claimed): while no Quit has been received and a message waits in
\* the channel, the worker thread has not ended.
C16_OnlyQuitStopsWorker ==
    (NoQuitReceived /\ queue # <<>>) => ~Ended

\* No Quit was sent before message id, and id is no Quit.
NoQuitUpTo(id) == \A j \in 1..id : callback[j].type # "Quit"

\* C17 (as claimed): under FairSpec, every message sent ahead of any Quit
\* eventually has its reply, unless its own caller has given up on it.
C17_EveryCommandReplied ==
    \A id \in 1..MaxMessages :
        (id <= Len(callback) /\ NoQuitUpTo(id))
        ~> (id <= Len(callback) /\ (Replied(id) \/ callback[id].dropped))

\* C18 (as claimed): a GetStatus handled right after a Stop answered with
\* success returns Stop, and a Run handled right after it is not answered
\* with AlreadyRunning.
C18_StoppedAfterStop ==
    (pc = "send" /\ Follows("Stop", "Ok"))
    => /\ message.type = "GetStatus" => result = Ok(<<"Stop">>)
       /\ message.type = "Run" => result.kind # "AlreadyRunning"

\* A child is stored and its primary has exited.
StalePair == child.some /\ os[child.vec[1].pid].state = "exited"

\* C19: on a stored pair whose primary has exited, a Run is not answered
\* with AlreadyRunning and, when its launch succeeds, stores the pair of the
\* two processes it has just started in place of the old one; a Stop returns
\* NotRunning and the old pair stays stored.
C19_RestartAfterExit ==
    [][ /\ (pc = "run" /\ StalePair /\ pc' # "run")
           => /\ result'.kind # "AlreadyRunning"
              /\ pc' = IF HasBadToken(message.env) THEN "send" ELSE "run_popen"
        /\ (pc = "run_popen" /\ child.some /\ pc' # "run_popen" /\ result'.tag = "Ok")
           => /\ StalePair
              /\ child'.some
              /\ Handles(child') = <<Len(os) + 1, Len(os) + 2>>
              /\ Handles(child') # Handles(child)
              /\ os'[child'.vec[1].pid].state = "running"
        /\ (pc = "stop" /\ StalePair /\ pc' # "stop")
           => /\ pc' = "send"
              /\ result' = Err("NotRunning", "")
              /\ SamePair(child', child)
        /\ (pc = "send" /\ message.type = "Stop" /\ result.kind = "NotRunning")
           => child' = child ]_vars

\* C19 witness: the primary of the first Run exited without any signal, and
\* a second Run has succeeded and stored a new pair.
C19_Witness ==
    /\ pc = "send"
    /\ message.type = "Run"
    /\ result = Ok(Unit)
    /\ Handles(child) = <<3, 4>>
    /\ os[1].state = "exited"
    /\ os[1].sigterm = 0
    /\ os[1].sigkill = 0
    /\ PrimaryRunning

\* C20: a Run that finds the primary running returns AlreadyRunning whatever
\* its env spec; a Run returns EnvParseError only having found the primary
\* not running, and the primary is not running when that error is sent.
C20_LivenessBeforeParse ==
    /\ []((pc = "send" /\ message.type = "Run" /\ result.kind = "EnvParseError")
          => ~PrimaryRunning)
    /\ [][ (pc = "run" /\ pc' # "run")
           => /\ (PrimaryRunning /\ HasBadToken(message.env))
                 => result' = Err("AlreadyRunning", "")
              /\ result'.kind = "EnvParseError" => ~PrimaryRunning ]_vars

\* C20 witness: a Run with a bare key in its env spec has found the primary
\* running and returns AlreadyRunning.
C20_Witness ==
    /\ pc = "send"
    /\ message.type = "Run"
    /\ HasBadToken(message.env)
    /\ result = Err("AlreadyRunning", "")
    /\ PrimaryRunning

====
